---- MODULE Spec2Model ----
(***************************************************************************)
(* A model of the lyapynov package: the DynamicalSystem classes            *)
(* (lyapynov/DynamicalSystem.py) and the estimators mLCE, LCE, CLV and ADJ *)
(* (lyapynov/Lyapunov.py).                                                 *)
(*                                                                         *)
(* Systems have dim = 1 (and p = 1), so that a state, a bundle and an R    *)
(* factor are each one number and every norm is an absolute value; ADJ is  *)
(* modelled on 2 x 2 matrices.  Numbers are exact: integers, or rationals  *)
(* <<numerator, denominator>>.  Time is counted in ticks; a continuous     *)
(* system has dt = 2 ticks, so that dt / 2 is one tick.  The caller's f    *)
(* and jac are drawn from small tables of functions of (x, t).             *)
(***************************************************************************)
EXTENDS Integers, Sequences, FiniteSets, TLC

VARIABLES
    heap,       \* the system objects: reference -> object (NoObj: not allocated)
    copy,       \* the reference copy() returned (0: none yet)
    pc,         \* the position of the running call: [at |-> label, i |-> loop index]
    args,       \* the arguments of the running call
    taken,      \* history: the next() calls made through the name system and through the name copy
    ret,        \* what the last forward call returned (None, or the trajectory)
    pre,        \* history: the last forward call: its receiver, its arguments, the object before it
    bundle,     \* the deviation vectors W (w in mLCE): [v |-> value, shape |-> array shape]
    trace,      \* history: the jac evaluations and next() calls of the running estimator
    acc,        \* mLCE / LCE: the terms added to the accumulator, in order
    history,    \* mLCE / LCE: the history array; CLV: the trajectory buffer
    result,     \* what the call returned
    Phi_list,   \* CLV: the stored bases
    R_list1,    \* CLV: the R factors of phase B
    R_list2,    \* CLV: the R factors of phase C
    A,          \* CLV: the coefficient matrix
    CLV_out,    \* CLV: the list CLV being built
    used,       \* history: the R factors the backward pass has solved with, in order
    CLV_in,     \* ADJ: the input list
    ADJ_out,    \* ADJ: the list ADJ being built
    path        \* history: ADJ: the path ("solve" / "svd") each step took

vars == <<heap, copy, pc, args, taken, ret, pre, bundle, trace, acc, history,
          result, Phi_list, R_list1, R_list2, A, CLV_out, used, CLV_in, ADJ_out, path>>

\* ------------------------------------------------------------------ bounds

MaxSteps == 3        \* next() calls a client makes on one reference (SpecDS)
MaxN == 3            \* n_steps of one forward call (SpecDS)
MaxLTM == 2          \* next_LTM calls a client makes (SpecDS)
MaxForward == 1      \* n_forward
MaxCompute == 3      \* n_compute
MaxA == 1            \* n_A
MaxB == 2            \* n_B
MaxC == 2            \* n_C
MaxAfter == 2        \* next() calls a client makes on one reference after CLV returned
MaxList == 2         \* len(CLV) of ADJ's input

\* Python's None where an object or a tuple is expected; where a list or an array
\* is expected None is <<>> (no list or array of the program is empty there).
None == [tag |-> "None"]
NoObj == [kind |-> "NoObj"]

\* ------------------------------------------------------------- arithmetic

Abs(n) == IF n < 0 THEN -n ELSE n

Sign(n) == IF n < 0 THEN -1 ELSE IF n = 0 THEN 0 ELSE 1

RECURSIVE Gcd(_, _)
Gcd(a, b) == IF b = 0 THEN a ELSE Gcd(b, a % b)

\* The rational n / d in lowest terms with a positive denominator (d # 0).
Rat(n, d) ==
    LET g == Gcd(Abs(n), Abs(d))
        s == IF d < 0 THEN -1 ELSE 1
    IN  <<s * (n \div g), s * (d \div g)>>

RMul(a, b) == Rat(a[1] * b[1], a[2] * b[2])
RDiv(a, b) == Rat(a[1] * b[2], a[2] * b[1])
RAbs(a) == <<Abs(a[1]), a[2]>>
ROne == <<1, 1>>

\* ------------------------------------------------------------ array shapes

\* The shape of a @ b (numpy.matmul) for a of one or two dimensions.
MatmulShape(a, b) ==
    LET n == Len(b)
        rows == IF Len(a) = 1 THEN <<>> ELSE <<a[1]>>
    IN  IF n = 1 THEN rows
        ELSE SubSeq(b, 1, n - 2) \o rows \o <<b[n]>>

\* The shape of a + b (broadcasting) for arrays whose dimensions are all 1.
BroadcastShape(a, b) == IF Len(a) >= Len(b) THEN a ELSE b

\* ------------------------------------------------- the caller's f and jac

\* f(x, t): multiples of 3, so that the RK4 sum divides by 6 / dt = 3.
F(fn, x, t) ==
    IF fn = "fa" THEN 3 * (1 + ((x + t) % 2))
    ELSE 3 * (((x \div 3) + t) % 3) - 3

\* jac(x, t), never 0.  "ja" (multiples of 3) is given to continuous systems.
Jac(jn, x, t) ==
    IF jn = "ja" THEN (IF ((x \div 3) + t) % 2 = 0 THEN 3 ELSE -3)
    ELSE (CASE (x + t) % 3 = 0 -> 2
            [] (x + t) % 3 = 1 -> -3
            [] OTHER -> 4)

\* ------------------------------------------------------- DynamicalSystem

\* DynamicalSystem.__init__ (dim = len(x0) = 1).
DynamicalSystem(kind, x0, t0, fn, jn, jshape, dt) ==
    [kind |-> kind, x0 |-> x0, t0 |-> t0, x |-> x0, t |-> t0,
     fn |-> fn, jn |-> jn, jshape |-> jshape, dt |-> dt]

\* A variant: the same object under a second name.
copy_alias(h, o) == [heap |-> h, ref |-> o]

\* copy.deepcopy(self): a new object with the fields' values.
DynamicalSystem_copy(h, o) ==
    LET new == CHOOSE r \in DOMAIN h : h[r] = NoObj
    IN  [heap |-> [h EXCEPT ![new] = h[o]], ref |-> new]

\* ContinuousDS.next: one RK4 step.
ContinuousDS_next(s) ==
    LET h  == s.dt \div 2
        k1 == F(s.fn, s.x, s.t)
        k2 == F(s.fn, s.x + h * k1, s.t + h)
        k3 == F(s.fn, s.x + h * k2, s.t + h)
        k4 == F(s.fn, s.x + s.dt * k3, s.t + s.dt)
    IN  [s EXCEPT !.x = s.x + (s.dt * (k1 + 2 * k2 + 2 * k3 + k4)) \div 6,
                  !.t = s.t + s.dt]

\* DiscreteDS.next.
DiscreteDS_next(s) ==
    [s EXCEPT !.x = F(s.fn, s.x, s.t), !.t = s.t + s.dt]

next(s) == IF s.kind = "continuous" THEN ContinuousDS_next(s) ELSE DiscreteDS_next(s)

\* A variant: the (x, t) of the second RK4 stage.
jac_args_stage(s) ==
    [x |-> s.x + (s.dt \div 2) * F(s.fn, s.x, s.t), t |-> s.t + (s.dt \div 2)]

\* The (x, t) at which next_LTM evaluates jac: self.x, self.t.
jac_args(s) == [x |-> s.x, t |-> s.t]

\* ContinuousDS.next_LTM: RK4 on W' = J W with the one Jacobian.
ContinuousDS_next_LTM(s, W) ==
    LET at == jac_args(s)
        J  == Jac(s.jn, at.x, at.t)
        h  == s.dt \div 2
        js == s.jshape
        k1 == J * W.v
        k2 == J * (W.v + h * k1)
        k3 == J * (W.v + h * k2)
        k4 == J * (W.v + s.dt * k3)
        ks == MatmulShape(js, W.shape)
        ws == BroadcastShape(W.shape, ks)
    IN  [v |-> W.v + (s.dt * (k1 + 2 * k2 + 2 * k3 + k4)) \div 6,
         shape |-> BroadcastShape(W.shape, MatmulShape(js, ws))]

\* DiscreteDS.next_LTM: jacobian @ W, wrapped in np.array([res]) when dim == 1.
DiscreteDS_next_LTM(s, W) ==
    LET at  == jac_args(s)
        J   == Jac(s.jn, at.x, at.t)
        res == [v |-> J * W.v, shape |-> MatmulShape(s.jshape, W.shape)]
    IN  [v |-> res.v, shape |-> <<1>> \o res.shape]

next_LTM(s, W) ==
    IF s.kind = "continuous" THEN ContinuousDS_next_LTM(s, W)
    ELSE DiscreteDS_next_LTM(s, W)

\* DynamicalSystem.forward, the keep_traj branch: rows i .. n_steps of traj.
RECURSIVE forward_keep(_, _, _, _)
forward_keep(s, traj, i, n_steps) ==
    IF i > n_steps THEN [sys |-> s, traj |-> traj]
    ELSE LET s1 == next(s)
         IN  forward_keep(s1, Append(traj, s1.x), i + 1, n_steps)

\* DynamicalSystem.forward, the other branch: n more next() calls.
RECURSIVE forward_drop(_, _)
forward_drop(s, n) == IF n = 0 THEN s ELSE forward_drop(next(s), n - 1)

\* A variant: the loop of the keep_traj branch starts at row 2.
forward_short(s, n_steps, keep_traj) ==
    IF keep_traj
    THEN forward_keep(s, <<s.x>>, 2, n_steps)
    ELSE [sys |-> forward_drop(s, n_steps), traj |-> <<>>]

\* DynamicalSystem.forward: the system after the call and what the call returns.
forward(s, n_steps, keep_traj) ==
    IF keep_traj
    THEN forward_keep(s, <<s.x>>, 1, n_steps)
    ELSE [sys |-> forward_drop(s, n_steps), traj |-> <<>>]

\* ----------------------------------------------------------------- systems

Refs == {1, 2}
system == 1

Systems ==
    {DynamicalSystem("continuous", x0, 0, fn, "ja", js, 2) :
        x0 \in {0, 1}, fn \in {"fa", "fb"}, js \in {<<1>>, <<1, 1>>}}
    \cup
    {DynamicalSystem("discrete", x0, 0, fn, jn, js, 1) :
        x0 \in {0, 1}, fn \in {"fa", "fb"}, jn \in {"ja", "jb"}, js \in {<<1>>, <<1, 1>>}}

\* The variables a specification does not use.
Idle ==
    /\ args = None /\ trace = <<>> /\ acc = <<>> /\ history = <<>> /\ result = None
    /\ Phi_list = <<>> /\ R_list1 = <<>> /\ R_list2 = <<>> /\ A = <<0, 1>>
    /\ CLV_out = <<>> /\ used = <<>> /\ CLV_in = <<>> /\ ADJ_out = <<>> /\ path = <<>>

estVars == <<args, trace, acc, history, result, Phi_list, R_list1, R_list2, A,
             CLV_out, used, CLV_in, ADJ_out, path>>

\* -------------------------------------------------- SpecDS: a client of the
\* DynamicalSystem interface: copy, forward and next_LTM in any order.

NoneTaken == [system |-> 0, copy |-> 0]
NoCall == [ref |-> 0, n |-> 0, keep |-> FALSE, before |-> NoObj]

InitDS ==
    /\ \E s \in Systems : heap = [r \in Refs |-> IF r = system THEN s ELSE NoObj]
    /\ copy = 0
    /\ pc = [at |-> "client", i |-> 0]
    /\ taken = NoneTaken
    /\ ret = <<>>
    /\ pre = NoCall
    /\ \E sh \in {<<1>>, <<1, 1>>} : bundle = [v |-> 1, shape |-> sh, first |-> sh, calls |-> 0]
    /\ Idle

\* The names a client holds, and the object a name refers to.
Names == {"system"} \cup (IF copy = 0 THEN {} ELSE {"copy"})
Deref(name) == IF name = "system" THEN system ELSE copy

\* copy = system.copy(), of the system as constructed.
DS_Copy ==
    /\ copy = 0
    /\ taken.system = 0
    /\ LET c == DynamicalSystem_copy(heap, system)
       IN  heap' = c.heap /\ copy' = c.ref
    /\ UNCHANGED <<pc, taken, ret, pre, bundle, estVars>>

\* name.forward(n, keep)
DS_Forward(name, n, keep) ==
    /\ taken[name] + n <= MaxSteps
    /\ LET o == Deref(name)
           r == forward(heap[o], n, keep)
       IN  /\ heap' = [heap EXCEPT ![o] = r.sys]
           /\ ret' = r.traj
           /\ pre' = [ref |-> o, n |-> n, keep |-> keep, before |-> heap[o]]
    /\ taken' = [taken EXCEPT ![name] = @ + n]
    /\ UNCHANGED <<copy, pc, bundle, estVars>>

\* W = system.next_LTM(W)
DS_NextLTM ==
    /\ bundle.calls < MaxLTM
    /\ LET W == next_LTM(heap[system], bundle)
       IN  bundle' = [bundle EXCEPT !.v = W.v, !.shape = W.shape, !.calls = @ + 1]
    /\ UNCHANGED <<heap, copy, pc, taken, ret, pre, estVars>>

NextDS ==
    \/ DS_Copy
    \/ \E name \in Names, n \in 0..MaxN, keep \in BOOLEAN : DS_Forward(name, n, keep)
    \/ DS_NextLTM

SpecDS == InitDS /\ [][NextDS]_vars

\* n calls of forward(1, False) from s.
RECURSIVE single_steps(_, _)
single_steps(s, n) ==
    IF n = 0 THEN s ELSE single_steps(forward(s, 1, FALSE).sys, n - 1)

\* C2: on a DiscreteDS with dim = 1 whose jac returns a 1 x 1 matrix, next_LTM
\* applied to a 1 x 1 bundle returns a 1 x 1 bundle, and the bundle fed back
\* stays 1 x 1 after any number of calls.
C2_bundle_stays_1x1 ==
    (/\ heap[system].kind = "discrete"
     /\ heap[system].jshape = <<1, 1>>
     /\ bundle.first = <<1, 1>>)
    => bundle.shape = <<1, 1>>

\* C3: forward(n, True) returns n + 1 rows, row 0 the state before the call and
\* row i the state after i steps; a forward(n, keep) call leaves the system where
\* n calls of forward(1, False) leave it; and two systems that start equal and
\* have taken as many steps, in whatever batches and with whatever keep_traj,
\* hold the same state and time.
C3_forward_batching ==
    /\ (pre.ref # 0 /\ pre.keep) =>
          /\ Len(ret) = pre.n + 1
          /\ \A i \in 0..pre.n : ret[i + 1] = single_steps(pre.before, i).x
    /\ (pre.ref # 0 /\ ~pre.keep) => ret = <<>>
    /\ pre.ref # 0 => heap[pre.ref] = single_steps(pre.before, pre.n)
    /\ (copy # 0 /\ taken.system = taken.copy) =>
          /\ heap[system].x = heap[copy].x
          /\ heap[system].t = heap[copy].t

\* One system went MaxN steps in one forward(MaxN, True) call, its copy as far in
\* more than one call.
C3_witness ==
    /\ copy # 0
    /\ pre.ref = system /\ pre.keep /\ pre.n = MaxN /\ taken.system = MaxN
    /\ taken.copy = MaxN
    /\ Len(ret) = MaxN + 1
    /\ ret[MaxN + 1] # ret[1]

\* ------------------------------------------- SpecEst: one call of mLCE, LCE,
\* CLV or ADJ on a system as constructed, run to its return.

\* The estimate sum(log(g) : g in logs) / div.
Est(logs, div) == [logs |-> logs, div |-> div]

\* np.zeros: an entry never written.
Zero == Est(<<>>, 1)

\* What the jac evaluation of next_LTM and the next() calls add to the trace.
JacEvent(s) == [op |-> "jac", x |-> jac_args(s).x, t |-> jac_args(s).t]
NextEvent(s) == [op |-> "next", x |-> s.x, t |-> s.t]

RECURSIVE next_events(_, _)
next_events(s, n) ==
    IF n = 0 THEN <<>> ELSE <<NextEvent(s)>> \o next_events(next(s), n - 1)

\* np.linalg.qr of a 1 x 1 matrix: the Householder reflection of one entry is
\* the identity, Q = [[1.]] and R = W.
qr(W) == [Q |-> [W EXCEPT !.v = 1], R |-> W.v]

\* Systems on which next_LTM keeps a 1 x 1 bundle two-dimensional, as
\* np.linalg.qr needs.
QRSystems ==
    {s \in Systems : s.kind = "continuous" \/ s.jshape = <<1>>}

InitEst ==
    /\ \E s \in Systems : heap = [r \in Refs |-> IF r = system THEN s ELSE NoObj]
    /\ copy = 0
    /\ pc = [at |-> "start", i |-> 0]
    /\ taken = NoneTaken
    /\ ret = <<>>
    /\ pre = NoCall
    /\ bundle = [v |-> 0, shape |-> <<>>, first |-> <<>>, calls |-> 0]
    /\ Idle

\* A variant: the transient takes 2 * n_forward steps.
Transient_twice(n_forward) ==
    /\ heap' = [heap EXCEPT ![system] = forward(heap[system], 2 * n_forward, FALSE).sys]
    /\ trace' = trace \o next_events(heap[system], 2 * n_forward)
    /\ taken' = [taken EXCEPT !.system = @ + 2 * n_forward]

\* system.forward(n_forward, False) at the head of mLCE, LCE and CLV.
Transient(n_forward) ==
    /\ heap' = [heap EXCEPT ![system] = forward(heap[system], n_forward, FALSE).sys]
    /\ trace' = trace \o next_events(heap[system], n_forward)
    /\ taken' = [taken EXCEPT !.system = @ + n_forward]

\* A variant: the step comes before the tangent map.
step_then_tangent(s, W) ==
    LET s1 == forward(s, 1, FALSE).sys
        W1 == next_LTM(s1, W)
    IN  [W |-> [W EXCEPT !.v = W1.v, !.shape = W1.shape, !.calls = @ + 1],
         sys |-> s1,
         events |-> <<NextEvent(s), JacEvent(s1)>>]

\* W = system.next_LTM(W); system.forward(1, False): what an iteration of mLCE, LCE
\* and of each phase of CLV does to the bundle and to the system, and what the
\* jac evaluation and the next() call see.
tangent_then_step(s, W) ==
    LET W1 == next_LTM(s, W)
        s1 == forward(s, 1, FALSE).sys
    IN  [W |-> [W EXCEPT !.v = W1.v, !.shape = W1.shape, !.calls = @ + 1],
         sys |-> s1,
         events |-> <<JacEvent(s), NextEvent(s)>>]

\* The iteration's effect on the system, given what tangent_then_step returned.
StepSystem(it) ==
    /\ heap' = [heap EXCEPT ![system] = it.sys]
    /\ trace' = trace \o it.events
    /\ taken' = [taken EXCEPT !.system = @ + 1]

\* ---- mLCE (Lyapunov.py 6-42)

\* Lines 19-26.  w = rand(1) / norm(w) is [1.] (rand draws from (0, 1)).
mLCE_Begin(n_forward, n_compute, keep) ==
    /\ pc.at = "start"
    /\ Transient(n_forward)
    /\ acc' = <<>>
    /\ bundle' = [v |-> 1, shape |-> <<1>>, first |-> <<1>>, calls |-> 0]
    /\ history' = IF keep THEN [i \in 1..n_compute |-> Zero] ELSE <<>>
    /\ args' = [fn |-> "mLCE", n_forward |-> n_forward, n_compute |-> n_compute,
                keep |-> keep, entry |-> heap[system]]
    /\ pc' = [at |-> IF keep THEN "mLCE_keep" ELSE "mLCE_drop", i |-> 1]
    /\ UNCHANGED <<copy, ret, pre, result, Phi_list, R_list1, R_list2, A,
                   CLV_out, used, CLV_in, ADJ_out, path>>

\* A variant: the entry is divided by (i + 1) * dt.
mLCE_history_late(logs, i, dt) == Est(logs, (i + 1) * dt)

\* history[i-1] = mLCE / (i * system.dt)
mLCE_history(logs, i, dt) == Est(logs, i * dt)

\* Lines 28-32: one iteration with keep.
mLCE_IterKeep ==
    /\ pc.at = "mLCE_keep" /\ pc.i <= args.n_compute
    /\ LET it == tangent_then_step(heap[system], bundle)
           w == it.W
           logs == Append(acc, Abs(w.v))
       IN  /\ StepSystem(it)
           /\ acc' = logs
           /\ history' = [history EXCEPT
                            ![pc.i] = mLCE_history(logs, pc.i, it.sys.dt)]
           /\ bundle' = [w EXCEPT !.v = w.v \div Abs(w.v)]
    /\ pc' = [pc EXCEPT !.i = @ + 1]
    /\ UNCHANGED <<copy, args, ret, pre, result, Phi_list, R_list1, R_list2, A,
                   CLV_out, used, CLV_in, ADJ_out, path>>

\* Lines 37-40: one iteration without keep.
mLCE_IterDrop ==
    /\ pc.at = "mLCE_drop" /\ pc.i <= args.n_compute
    /\ LET it == tangent_then_step(heap[system], bundle)
           w == it.W
       IN  /\ StepSystem(it)
           /\ acc' = Append(acc, Abs(w.v))
           /\ bundle' = [w EXCEPT !.v = w.v \div Abs(w.v)]
    /\ pc' = [pc EXCEPT !.i = @ + 1]
    /\ UNCHANGED <<copy, args, ret, pre, history, result, Phi_list, R_list1, R_list2,
                   A, CLV_out, used, CLV_in, ADJ_out, path>>

\* Lines 33-34 and 41-42: mLCE / (n_compute * system.dt) on Python floats raises
\* ZeroDivisionError when n_compute is 0.
mLCE_Return ==
    /\ pc.at \in {"mLCE_keep", "mLCE_drop"} /\ pc.i > args.n_compute
    /\ args.n_compute * heap[system].dt # 0
    /\ result' = [value |-> Est(acc, args.n_compute * heap[system].dt),
                  history |-> history, copy |-> 0]
    /\ pc' = [at |-> "done", i |-> 0]
    /\ UNCHANGED <<heap, copy, args, taken, ret, pre, bundle, trace, acc, history,
                   Phi_list, R_list1, R_list2, A, CLV_out, used, CLV_in, ADJ_out, path>>

mLCE_Raise ==
    /\ pc.at \in {"mLCE_keep", "mLCE_drop"} /\ pc.i > args.n_compute
    /\ args.n_compute * heap[system].dt = 0
    /\ pc' = [at |-> "raised", i |-> 0]
    /\ UNCHANGED <<heap, copy, args, taken, ret, pre, bundle, trace, acc, history,
                   result, Phi_list, R_list1, R_list2, A, CLV_out, used, CLV_in,
                   ADJ_out, path>>

\* ---- LCE (Lyapunov.py 45-83), p = 1

\* Lines 59-65.  W = np.eye(1)[:, :1].
LCE_Begin(n_forward, n_compute, keep) ==
    /\ pc.at = "start"
    /\ heap[system] \in QRSystems
    /\ Transient(n_forward)
    /\ acc' = <<>>
    /\ bundle' = [v |-> 1, shape |-> <<1, 1>>, first |-> <<1, 1>>, calls |-> 0]
    /\ history' = IF keep THEN [i \in 1..n_compute |-> Zero] ELSE <<>>
    /\ args' = [fn |-> "LCE", n_forward |-> n_forward, n_compute |-> n_compute,
                keep |-> keep, entry |-> heap[system]]
    /\ pc' = [at |-> IF keep THEN "LCE_keep" ELSE "LCE_drop", i |-> 1]
    /\ UNCHANGED <<copy, ret, pre, result, Phi_list, R_list1, R_list2, A,
                   CLV_out, used, CLV_in, ADJ_out, path>>

\* Lines 67-72: one iteration with keep.
LCE_IterKeep ==
    /\ pc.at = "LCE_keep" /\ pc.i <= args.n_compute
    /\ LET it == tangent_then_step(heap[system], bundle)
           f == qr(it.W)
           logs == Append(acc, Abs(f.R))
       IN  /\ StepSystem(it)
           /\ acc' = logs
           /\ history' = [history EXCEPT ![pc.i] = Est(logs, pc.i * it.sys.dt)]
           /\ bundle' = f.Q
    /\ pc' = [pc EXCEPT !.i = @ + 1]
    /\ UNCHANGED <<copy, args, ret, pre, result, Phi_list, R_list1, R_list2, A,
                   CLV_out, used, CLV_in, ADJ_out, path>>

\* Lines 77-81: one iteration without keep.
LCE_IterDrop ==
    /\ pc.at = "LCE_drop" /\ pc.i <= args.n_compute
    /\ LET it == tangent_then_step(heap[system], bundle)
           f == qr(it.W)
       IN  /\ StepSystem(it)
           /\ acc' = Append(acc, Abs(f.R))
           /\ bundle' = f.Q
    /\ pc' = [pc EXCEPT !.i = @ + 1]
    /\ UNCHANGED <<copy, args, ret, pre, history, result, Phi_list, R_list1, R_list2,
                   A, CLV_out, used, CLV_in, ADJ_out, path>>

\* Lines 73-74 and 82-83: a numpy array divided by 0 is nan, and is returned.
LCE_Return ==
    /\ pc.at \in {"LCE_keep", "LCE_drop"} /\ pc.i > args.n_compute
    /\ result' = [value |-> Est(acc, args.n_compute * heap[system].dt),
                  history |-> history, copy |-> 0]
    /\ pc' = [at |-> "done", i |-> 0]
    /\ UNCHANGED <<heap, copy, args, taken, ret, pre, bundle, trace, acc, history,
                   Phi_list, R_list1, R_list2, A, CLV_out, used, CLV_in, ADJ_out, path>>

\* ---- CLV (Lyapunov.py 86-164), p = 1

\* A stored R factor, with the tangent step (1, 2, ... since W = eye) whose QR made it.
RFactor(R, W) == [r |-> R, n |-> W.calls]

\* The seeds np.triu(np.random.rand(1, 1)) is drawn from.
Seeds == {<<1, 2>>, <<3, 4>>}

\* A variant: no normalisation.
normalize_skipped(M) == M

\* A @ np.diag(1. / np.linalg.norm(A, axis = 0)), A # 0.
normalize(M) == <<Sign(M[1]), 1>>

\* np.linalg.solve(R, B), R # 0.
solve(R, B) == RDiv(B, <<R, 1>>)

\* A variant: the list is read in its own order.
forward_at(list, i) == list[i + 1]

\* The element reversed(list) yields i-th (i = 0, 1, ...).
reversed_at(list, i) == list[Len(list) - i]

\* A variant: the list is left as built.
not_reversed(list) == list

\* list.reverse()
reverse(list) == [k \in 1..Len(list) |-> list[Len(list) + 1 - k]]

\* Lines 102-105.  W = np.eye(1)[:, :1].
CLV_Begin(n_forward, n_A, n_B, n_C, traj, check) ==
    /\ pc.at = "start"
    /\ heap[system] \in QRSystems
    /\ Transient(n_forward)
    /\ bundle' = [v |-> 1, shape |-> <<1, 1>>, first |-> <<1, 1>>, calls |-> 0]
    /\ args' = [fn |-> "CLV", n_forward |-> n_forward, n_A |-> n_A, n_B |-> n_B,
                n_C |-> n_C, traj |-> traj, check |-> check, entry |-> heap[system]]
    /\ pc' = [at |-> "CLV_A", i |-> 0]
    /\ UNCHANGED <<copy, ret, pre, acc, history, result, Phi_list, R_list1, R_list2, A,
                   CLV_out, used, CLV_in, ADJ_out, path>>

\* Lines 107-109: one iteration of phase A.
CLV_PhaseA ==
    /\ pc.at = "CLV_A" /\ pc.i < args.n_A
    /\ LET it == tangent_then_step(heap[system], bundle)
       IN  /\ StepSystem(it)
           /\ bundle' = qr(it.W).Q
    /\ pc' = [pc EXCEPT !.i = @ + 1]
    /\ UNCHANGED <<copy, args, ret, pre, acc, history, result, Phi_list, R_list1,
                   R_list2, A, CLV_out, used, CLV_in, ADJ_out, path>>

\* Lines 112-117: the lists, row 0 of the trajectory buffer, the snapshot.
CLV_StartB ==
    /\ pc.at = "CLV_A" /\ pc.i = args.n_A
    /\ Phi_list' = <<bundle>>
    /\ R_list1' = <<>>
    /\ history' = IF args.traj
                  THEN [k \in 1..(args.n_B + 1) |-> IF k = 1 THEN heap[system].x ELSE 0]
                  ELSE <<>>
    /\ IF args.check
       THEN LET c == DynamicalSystem_copy(heap, system)
            IN  heap' = c.heap /\ copy' = c.ref
       ELSE UNCHANGED <<heap, copy>>
    /\ pc' = [at |-> "CLV_B", i |-> 0]
    /\ UNCHANGED <<args, taken, ret, pre, bundle, trace, acc, result, R_list2, A,
                   CLV_out, used, CLV_in, ADJ_out, path>>

\* Lines 119-125: one iteration of phase B.
CLV_PhaseB ==
    /\ pc.at = "CLV_B" /\ pc.i < args.n_B
    /\ LET it == tangent_then_step(heap[system], bundle)
           f == qr(it.W)
       IN  /\ StepSystem(it)
           /\ bundle' = f.Q
           /\ Phi_list' = Append(Phi_list, f.Q)
           /\ R_list1' = Append(R_list1, RFactor(f.R, f.Q))
           /\ history' = IF args.traj
                         THEN [history EXCEPT ![pc.i + 2] = it.sys.x]
                         ELSE history
    /\ pc' = [pc EXCEPT !.i = @ + 1]
    /\ UNCHANGED <<copy, args, ret, pre, acc, result, R_list2, A, CLV_out, used,
                   CLV_in, ADJ_out, path>>

\* Line 128.
CLV_StartC ==
    /\ pc.at = "CLV_B" /\ pc.i = args.n_B
    /\ R_list2' = <<>>
    /\ pc' = [at |-> "CLV_C", i |-> 0]
    /\ UNCHANGED <<heap, copy, args, taken, ret, pre, bundle, trace, acc, history,
                   result, Phi_list, R_list1, A, CLV_out, used, CLV_in, ADJ_out, path>>

\* Lines 130-133: one iteration of phase C.
CLV_PhaseC ==
    /\ pc.at = "CLV_C" /\ pc.i < args.n_C
    /\ LET it == tangent_then_step(heap[system], bundle)
           f == qr(it.W)
       IN  /\ StepSystem(it)
           /\ bundle' = f.Q
           /\ R_list2' = Append(R_list2, RFactor(f.R, f.Q))
    /\ pc' = [pc EXCEPT !.i = @ + 1]
    /\ UNCHANGED <<copy, args, ret, pre, acc, history, result, Phi_list, R_list1, A,
                   CLV_out, used, CLV_in, ADJ_out, path>>

\* Line 136: A = np.triu(np.random.rand(1, 1)).
CLV_Seed(a) ==
    /\ pc.at = "CLV_C" /\ pc.i = args.n_C
    /\ A' = a
    /\ pc' = [at |-> "CLV_back2", i |-> 0]
    /\ UNCHANGED <<heap, copy, args, taken, ret, pre, bundle, trace, acc, history,
                   result, Phi_list, R_list1, R_list2, CLV_out, used, CLV_in,
                   ADJ_out, path>>

\* Lines 137-140: one iteration over reversed(R_list2).
CLV_Back2 ==
    /\ pc.at = "CLV_back2" /\ pc.i < Len(R_list2)
    /\ LET R == reversed_at(R_list2, pc.i)
           B == normalize(A)
       IN  /\ A' = solve(R.r, B)
           /\ used' = Append(used, [n |-> R.n, B |-> B])
    /\ pc' = [pc EXCEPT !.i = @ + 1]
    /\ UNCHANGED <<heap, copy, args, taken, ret, pre, bundle, trace, acc, history,
                   result, Phi_list, R_list1, R_list2, CLV_out, CLV_in, ADJ_out, path>>

\* A matrix of the list CLV: its one entry, and the basis and the R factor it was made of.
CLVEntry(v, Q, n) == [v |-> v, Q |-> Q.calls, R |-> n]

\* Lines 141-144: del R_list2; CLV = [Phi_list[-1] @ A].
CLV_First ==
    /\ pc.at = "CLV_back2" /\ pc.i = Len(R_list2)
    /\ R_list2' = <<>>
    /\ LET Q == Phi_list[Len(Phi_list)]
       IN  CLV_out' = <<CLVEntry(RMul(<<Q.v, 1>>, A), Q, 0)>>
    /\ pc' = [at |-> "CLV_back1", i |-> 0]
    /\ UNCHANGED <<heap, copy, args, taken, ret, pre, bundle, trace, acc, history,
                   result, Phi_list, R_list1, A, used, CLV_in, ADJ_out, path>>

\* Lines 145-150: one iteration over zip(reversed(Phi_list[:-1]), reversed(R_list1)).
CLV_Back1 ==
    /\ pc.at = "CLV_back1" /\ pc.i < Len(R_list1)
    /\ LET Q == reversed_at(SubSeq(Phi_list, 1, Len(Phi_list) - 1), pc.i)
           R == reversed_at(R_list1, pc.i)
           B == normalize(A)
           A1 == solve(R.r, B)
           CLV_t == RMul(<<Q.v, 1>>, A1)
       IN  /\ A' = A1
           /\ used' = Append(used, [n |-> R.n, B |-> B])
           /\ CLV_out' = Append(CLV_out, CLVEntry(RDiv(CLV_t, RAbs(CLV_t)), Q, R.n))
    /\ pc' = [pc EXCEPT !.i = @ + 1]
    /\ UNCHANGED <<heap, copy, args, taken, ret, pre, bundle, trace, acc, history,
                   result, Phi_list, R_list1, R_list2, CLV_in, ADJ_out, path>>

\* Lines 151-164: del R_list1, Phi_list; CLV.reverse(); return.
CLV_Return ==
    /\ pc.at = "CLV_back1" /\ pc.i = Len(R_list1)
    /\ R_list1' = <<>>
    /\ Phi_list' = <<>>
    /\ CLV_out' = reverse(CLV_out)
    /\ result' = [value |-> reverse(CLV_out),
                  history |-> IF args.traj THEN history ELSE <<>>,
                  copy |-> IF args.check THEN copy ELSE 0]
    /\ pc' = [at |-> "done", i |-> 0]
    /\ UNCHANGED <<heap, copy, args, taken, ret, pre, bundle, trace, acc, history,
                   R_list2, A, used, CLV_in, ADJ_out, path>>

\* After CLV returned, the caller steps the system or the snapshot:
\* name.forward(n, False).
After_Forward(name, n) ==
    /\ pc.at = "done" /\ args.fn = "CLV"
    /\ pc.i + n <= MaxAfter
    /\ LET o == Deref(name)
           r == forward(heap[o], n, FALSE)
       IN  /\ heap' = [heap EXCEPT ![o] = r.sys]
           /\ ret' = r.traj
    /\ taken' = [taken EXCEPT ![name] = @ + n]
    /\ pc' = [pc EXCEPT !.i = @ + n]
    /\ UNCHANGED <<copy, pre, bundle, estVars>>

\* ---- ADJ (Lyapunov.py 167-190), dim = 2
\* A matrix is the sequence of its columns, a column a pair of integers.  A
\* column of a result is [vec |-> v, n2 |-> k]: the vector v / sqrt(k).

Dot(u, v) == u[1] * v[1] + u[2] * v[2]

\* The columns a CLV matrix of the input is made of (none is zero), its matrices
\* and the lists.
Columns == {<<1, 0>>, <<0, 1>>, <<1, 1>>, <<-1, 1>>}
Matrices == {<<c>> : c \in Columns} \cup {<<c, d>> : c, d \in Columns}

RECURSIVE ListsOf(_, _)
ListsOf(S, n) ==
    IF n = 0 THEN {<<>>}
    ELSE ListsOf(S, n - 1) \cup {Append(l, m) : l \in {k \in ListsOf(S, n - 1) : Len(k) = n - 1}, m \in S}

Lists == ListsOf(Matrices, MaxList)

Det(V) == V[1][1] * V[2][2] - V[2][1] * V[1][2]

\* np.linalg.solve(np.transpose(V), np.eye(2)) raises LinAlgError: V is not
\* square, or is singular.
solve_fails(V) == IF Len(V) # 2 THEN TRUE ELSE Det(V) = 0

\* The columns of the solution of V^T X = I, each over the determinant.
solve_transposed(V) ==
    LET d == Det(V)
    IN  <<[vec |-> <<V[2][2], -V[2][1]>>, den |-> d],
          [vec |-> <<-V[1][2], V[1][1]>>, den |-> d]>>

\* A variant: the column is left as solved, its length taken as the determinant.
column_as_solved(c) == [vec |-> c.vec, n2 |-> c.den * c.den]

\* ADJ_t / np.linalg.norm(ADJ_t, axis = 0), for one column.
normalize_column(c) ==
    [vec |-> <<Sign(c.den) * c.vec[1], Sign(c.den) * c.vec[2]>>, n2 |-> Dot(c.vec, c.vec)]

\* V[:, columns] with columns.remove(j), transposed: the rows of A.
others(V, j) == SelectSeq([k \in 1..Len(V) |-> IF k = j THEN <<>> ELSE V[k]],
                          LAMBDA c : c # <<>>)

\* A variant: the first row of Vh, the direction of the largest singular value.
svd_first(rows) ==
    IF rows = <<>> THEN {<<1, 0>>}
    ELSE {rows[1], <<-rows[1][1], -rows[1][2]>>}

\* np.linalg.svd(A)[2][-1], the last row of Vh, up to the norm: the identity's
\* for an empty A (Vh is the identity), a vector orthogonal to the one row of A
\* otherwise, of either sign.
svd_last(rows) ==
    IF rows = <<>> THEN {<<0, 1>>}
    ELSE {<<-rows[1][2], rows[1][1]>>, <<rows[1][2], -rows[1][1]>>}

\* Line 175.
ADJ_Begin(list) ==
    /\ pc.at = "start"
    /\ CLV_in' = list
    /\ ADJ_out' = <<>>
    /\ path' = <<>>
    /\ args' = [fn |-> "ADJ", entry |-> heap[system]]
    /\ pc' = [at |-> "ADJ_loop", i |-> 1]
    /\ UNCHANGED <<heap, copy, taken, ret, pre, bundle, trace, acc, history, result,
                   Phi_list, R_list1, R_list2, A, CLV_out, used>>

\* Lines 178-179: the solve succeeds.
ADJ_Solve ==
    /\ pc.at = "ADJ_loop" /\ pc.i <= Len(CLV_in)
    /\ ~solve_fails(CLV_in[pc.i])
    /\ LET ADJ_t == solve_transposed(CLV_in[pc.i])
       IN  ADJ_out' = Append(ADJ_out, [j \in 1..2 |-> normalize_column(ADJ_t[j])])
    /\ path' = Append(path, "solve")
    /\ pc' = [pc EXCEPT !.i = @ + 1]
    /\ UNCHANGED <<heap, copy, args, taken, ret, pre, bundle, trace, acc, history,
                   result, Phi_list, R_list1, R_list2, A, CLV_out, used, CLV_in>>

\* Lines 180-189: the solve raises; each column from the SVD of the others.
ADJ_Fallback ==
    /\ pc.at = "ADJ_loop" /\ pc.i <= Len(CLV_in)
    /\ solve_fails(CLV_in[pc.i])
    /\ LET V == CLV_in[pc.i]
       IN  \E Vh \in [1..Len(V) -> UNION {svd_last(others(V, j)) : j \in 1..Len(V)}] :
              /\ \A j \in 1..Len(V) : Vh[j] \in svd_last(others(V, j))
              /\ ADJ_out' = Append(ADJ_out,
                     [j \in 1..Len(V) |-> [vec |-> Vh[j], n2 |-> Dot(Vh[j], Vh[j])]])
    /\ path' = Append(path, "svd")
    /\ pc' = [pc EXCEPT !.i = @ + 1]
    /\ UNCHANGED <<heap, copy, args, taken, ret, pre, bundle, trace, acc, history,
                   result, Phi_list, R_list1, R_list2, A, CLV_out, used, CLV_in>>

\* Line 190.
ADJ_Return ==
    /\ pc.at = "ADJ_loop" /\ pc.i > Len(CLV_in)
    /\ result' = [value |-> ADJ_out, history |-> <<>>, copy |-> 0]
    /\ pc' = [at |-> "done", i |-> 0]
    /\ UNCHANGED <<heap, copy, args, taken, ret, pre, bundle, trace, acc, history,
                   Phi_list, R_list1, R_list2, A, CLV_out, used, CLV_in, ADJ_out, path>>


\* The matrices ADJ is called with under SpecEst.
EstMatrices == {<<<<1, 0>>, <<1, 1>>>>, <<<<1, 1>>, <<1, 1>>>>, <<<<1, 0>>>>}
EstLists == ListsOf(EstMatrices, MaxList)

NextEst ==
    \/ \E nf \in 0..MaxForward, nc \in 0..MaxCompute, keep \in BOOLEAN :
          mLCE_Begin(nf, nc, keep)
    \/ mLCE_IterKeep
    \/ mLCE_IterDrop
    \/ mLCE_Return
    \/ mLCE_Raise
    \/ \E nf \in 0..MaxForward, nc \in 0..MaxCompute, keep \in BOOLEAN :
          LCE_Begin(nf, nc, keep)
    \/ LCE_IterKeep
    \/ LCE_IterDrop
    \/ LCE_Return
    \/ \E nf \in 0..MaxForward, nA \in 0..MaxA, nB \in 0..MaxB, nC \in 0..MaxC,
          traj \in BOOLEAN, check \in BOOLEAN : CLV_Begin(nf, nA, nB, nC, traj, check)
    \/ CLV_PhaseA
    \/ CLV_StartB
    \/ CLV_PhaseB
    \/ CLV_StartC
    \/ CLV_PhaseC
    \/ \E a \in Seeds : CLV_Seed(a)
    \/ CLV_Back2
    \/ CLV_First
    \/ CLV_Back1
    \/ CLV_Return
    \/ \E name \in Names, n \in 1..MaxAfter : After_Forward(name, n)
    \/ pc.at = "start" /\ \E list \in EstLists : ADJ_Begin(list)
    \/ ADJ_Solve
    \/ ADJ_Fallback
    \/ ADJ_Return

SpecEst == InitEst /\ [][NextEst]_vars

\* ------------------------------------------------------ claims under SpecEst

\* The system k steps after the call's entry, and its (x, t).
state_after(k) == single_steps(args.entry, k)
at_state(k) == [x |-> state_after(k).x, t |-> state_after(k).t]

Running(fns) == pc.at \notin {"start", "client"} /\ args.fn \in fns
Returned(fns) == pc.at = "done" /\ args.fn \in fns

\* The steps a call takes: n_forward + n_compute, or n_forward + n_A + n_B + n_C.
TotalSteps ==
    IF args.fn = "CLV" THEN args.n_forward + args.n_A + args.n_B + args.n_C
    ELSE IF args.fn = "ADJ" THEN 0
    ELSE args.n_forward + args.n_compute

\* C1: every column of every matrix CLV returns, the last one included, has
\* unit length.
C1_all_columns_unit ==
    Returned({"CLV"}) =>
        \A k \in 1..Len(result.value) : RAbs(result.value[k].v) = ROne

C6_copy_is_independent ==
    /\ (Running({"CLV"}) /\ copy # 0) =>
          /\ heap[copy] = single_steps(state_after(args.n_forward + args.n_A), taken.copy)
          /\ heap[system] = state_after(taken.system)
    /\ Returned({"CLV"}) =>
          /\ result.copy = (IF args.check THEN copy ELSE 0)
          /\ args.check => copy # 0
          /\ (args.check /\ args.traj /\ taken.copy = 0) =>
                heap[copy].x = result.history[1]

\* CLV returned a snapshot; since, the original has stepped on through phases B
\* and C and once more, and the snapshot has stepped once.
C6_witness ==
    /\ Returned({"CLV"})
    /\ args.check /\ args.traj /\ args.n_B + args.n_C >= 2
    /\ taken.copy = 1
    /\ taken.system = TotalSteps + 1
    /\ heap[copy].x # result.history[1]
    /\ heap[copy].x # heap[system].x

\* C7: in mLCE, LCE and CLV, after the n_forward steps of the transient, jac
\* evaluations and next() calls alternate, jac first; the k-th jac evaluation
\* sees the (x, t) reached after n_forward + k - 1 steps, the next() call that
\* follows starts from that same (x, t), and each tangent step of the bundle
\* is one jac evaluation.
C7_tangent_before_step ==
    Running({"mLCE", "LCE", "CLV"}) =>
        LET nf == args.n_forward
            m  == Len(trace) - nf
        IN  /\ m >= 0 /\ m % 2 = 0
            /\ bundle.calls = m \div 2
            /\ \A j \in 1..nf : trace[j] = NextEvent(state_after(j - 1))
            /\ \A k \in 1..(m \div 2) :
                  LET s == state_after(nf + k - 1)
                  IN  /\ trace[nf + 2 * k - 1] = [op |-> "jac", x |-> s.x, t |-> s.t]
                      /\ trace[nf + 2 * k] = NextEvent(s)

\* A continuous system is through the transient and three iterations of CLV.
C7_witness ==
    /\ Running({"CLV"})
    /\ heap[system].kind = "continuous"
    /\ args.n_forward > 0
    /\ pc.at = "CLV_C" /\ pc.i > 0 /\ args.n_A > 0 /\ args.n_B > 0
    /\ Len(trace) >= args.n_forward + 6

\* The tag of the R factor the j-th solve of the backward pass uses (j = 1, 2, ...).
ExpectedR(j) == args.n_A + args.n_B + args.n_C + 1 - j

\* C8: the backward pass solves once with every stored R factor, latest first:
\* the n_C of R_list2, then the n_B of R_list1; the columns of A have unit
\* length at each solve; and the matrix of recorded step k < n_B is made with
\* the R of the tangent step from k to k + 1 and with Phi_list[k], the last
\* matrix with Phi_list[n_B] and no R.
C8_backward_order ==
    /\ Running({"CLV"}) =>
          /\ \A j \in 1..Len(used) :
                /\ used[j].n = ExpectedR(j)
                /\ RAbs(used[j].B) = ROne
          /\ \A k \in 1..Len(R_list1) : R_list1[k].n = args.n_A + k
          /\ \A k \in 1..Len(R_list2) : R_list2[k].n = args.n_A + args.n_B + k
    /\ Returned({"CLV"}) =>
          /\ Len(used) = args.n_C + args.n_B
          /\ \A k \in 0..(args.n_B - 1) :
                /\ result.value[k + 1].R = args.n_A + k + 1
                /\ result.value[k + 1].Q = args.n_A + k
          /\ result.value[args.n_B + 1].R = 0
          /\ result.value[args.n_B + 1].Q = args.n_A + args.n_B

\* CLV returned after a backward pass over MaxC factors of R_list2 and MaxB of R_list1.
C8_witness ==
    /\ Returned({"CLV"})
    /\ args.n_C = MaxC /\ args.n_B = MaxB /\ args.n_A > 0
    /\ Len(used) = MaxC + MaxB
    /\ used[1].n > used[Len(used)].n

\* The norm of the bundle after the i-th tangent step of the call (i = 1, 2, ...),
\* taken from a unit bundle.
Growth(i) ==
    Abs(next_LTM(state_after(args.n_forward + i - 1),
                 [v |-> 1, shape |-> <<1, 1>>]).v)

Growths(i) == [j \in 1..i |-> Growth(j)]

\* C9: for mLCE and LCE with n_compute >= 1, with keep the history has
\* n_compute entries, entry i the log-growth of the first i iterations over
\* i * dt, and the estimate is the last entry; with and without keep the
\* estimate is the log-growth of the n_compute iterations over n_compute * dt.
C9_keep_only_adds_history ==
    (Returned({"mLCE", "LCE"}) /\ args.n_compute >= 1) =>
        LET n  == args.n_compute
            dt == args.entry.dt
        IN  /\ result.value = Est(Growths(n), n * dt)
            /\ args.keep =>
                  /\ Len(result.history) = n
                  /\ \A i \in 1..n : result.history[i] = Est(Growths(i), i * dt)
                  /\ result.value = result.history[n]
            /\ ~args.keep => result.history = <<>>

\* mLCE returned with keep after MaxCompute iterations of unequal growth.
C9_witness ==
    /\ Returned({"mLCE"})
    /\ args.keep /\ args.n_compute = MaxCompute
    /\ Len(result.history) = MaxCompute
    /\ \E i, j \in 1..MaxCompute : Growth(i) # Growth(j)

\* C10: when mLCE, LCE or CLV returns, the system is the entry system advanced
\* by exactly TotalSteps steps, at time entry time + TotalSteps * dt; ADJ
\* leaves the system as it was.
C10_steps_taken ==
    (Returned({"mLCE", "LCE", "CLV", "ADJ"}) /\ pc.i = 0) =>
        /\ heap[system] = state_after(TotalSteps)
        /\ heap[system].t = args.entry.t + TotalSteps * args.entry.dt
        /\ taken.system = TotalSteps
        /\ Len(SelectSeq(trace, LAMBDA e : e.op = "next")) = TotalSteps

\* CLV returned with traj and check after steps in the transient and in every phase.
C10_witness ==
    /\ Returned({"CLV"}) /\ pc.i = 0
    /\ args.traj /\ args.check
    /\ args.n_forward > 0 /\ args.n_A > 0 /\ args.n_B > 0 /\ args.n_C > 0
    /\ heap[system].t = args.entry.t + TotalSteps * args.entry.dt
    /\ heap[system].x # args.entry.x

\* -------------------------------------------- SpecADJ: one call of ADJ on a
\* list of up to MaxList matrices of one or two columns; no system exists.

InitADJ ==
    /\ heap = [r \in Refs |-> NoObj]
    /\ copy = 0
    /\ pc = [at |-> "start", i |-> 0]
    /\ taken = NoneTaken
    /\ ret = <<>>
    /\ pre = NoCall
    /\ bundle = [v |-> 0, shape |-> <<>>, first |-> <<>>, calls |-> 0]
    /\ Idle

NextADJ ==
    \/ pc.at = "start" /\ \E list \in Lists : ADJ_Begin(list)
    \/ ADJ_Solve
    \/ ADJ_Fallback
    \/ ADJ_Return

SpecADJ == InitADJ /\ [][NextADJ]_vars

IsUnit(c) == c.n2 > 0 /\ Dot(c.vec, c.vec) = c.n2

\* C5: ADJ returns one matrix per input matrix, in input order, and never
\* raises; step n takes the SVD path exactly when its own solve fails; on the
\* solve path column j is orthogonal to the other column of CLV[n] and pairs
\* positively with column j, on the SVD path column j is orthogonal to the
\* other columns of CLV[n]; every column has unit length.
C5_fallback_per_step ==
    (pc.at \notin {"start", "client"} /\ args.fn = "ADJ") =>
        /\ pc.at # "raised"
        /\ Len(ADJ_out) = Len(path)
        /\ pc.at = "ADJ_loop" => Len(ADJ_out) = pc.i - 1
        /\ pc.at = "done" => (Len(result.value) = Len(CLV_in) /\ result.value = ADJ_out)
        /\ \A n \in 1..Len(ADJ_out) :
              LET V == CLV_in[n]
                  T == ADJ_out[n]
              IN  /\ path[n] = (IF solve_fails(V) THEN "svd" ELSE "solve")
                  /\ Len(T) = Len(V)
                  /\ \A j \in 1..Len(T) :
                        /\ IsUnit(T[j])
                        /\ \A i \in 1..Len(V) : i # j => Dot(T[j].vec, V[i]) = 0
                        /\ path[n] = "solve" => Dot(T[j].vec, V[j]) > 0

\* ADJ returned for a list whose first matrix is singular and whose second is
\* neither orthogonal nor singular.
C5_witness ==
    /\ pc.at = "done" /\ args.fn = "ADJ"
    /\ Len(CLV_in) = 2
    /\ path = <<"svd", "solve">>
    /\ CLV_in[1] = <<<<1, 1>>, <<1, 1>>>>
    /\ CLV_in[2] = <<<<1, 0>>, <<1, 1>>>>
    /\ Len(result.value) = 2


====
